---- MODULE Spec2Model ----
(***************************************************************************)
(* Model of backend/routers/announcements.py: the announcement router, its *)
(* five handlers, the credential gate and the document collection they     *)
(* call.                                                                   *)
(*                                                                         *)
(* Python values are represented as follows.                               *)
(*   str        a sequence of characters, a character being a natural      *)
(*              number; "" is << >>; strings are compared as Python        *)
(*              compares them, lexicographically (StrLess).                *)
(*   None       the one-element sequence <<-1>>, which is no string.       *)
(*   ObjectId   a natural number; str(ObjectId) is its fixed-width         *)
(*              rendering OidStr in lower-case digits, ObjectId(str) is    *)
(*              ParseOid, which reads upper-case digits too.  The digits   *)
(*              are the characters 0..HexBase-1; the character HexBase is  *)
(*              the upper-case spelling of the digit HexBase-1 ("F" for    *)
(*              "f"); every other character is no digit.                   *)
(*   document   a record _id, message, start_date, expiration_date,        *)
(*              created_at; a missing field reads as None (dict.get).      *)
(***************************************************************************)
EXTENDS Integers, Sequences, FiniteSets, TLC

VARIABLES
    store,      \* announcements_collection: documents in natural order
    clock,      \* the wall clock, in ticks, read by datetime.utcnow()
    nextOid,    \* the ObjectId generator of the collection
    req,        \* the request being answered (NoReq when none)
    resp,       \* the response to req (NoResp when none)
    pending,    \* update requests between update_one and find_one
    ledger,     \* history: {id, created_at} returned by create, still stored
    retired     \* history: ids returned by create and deleted since

vars == <<store, clock, nextOid, req, resp, pending, ledger, retired>>

---------------------------------------------------------------------------
(* Bounds of the model *)

MaxCreates == 2     \* successful creates in one behaviour
MaxClock == 1       \* last tick of the wall clock
MaxSeed == 2        \* documents other writers insert (SpecRead)
OidLen == 3         \* characters of a rendered ObjectId (24 in bson)
HexBase == 2        \* digits of a rendered ObjectId (16 in bson)
TicksPerSecond == 2 \* clock ticks per second (10^6 microseconds)

---------------------------------------------------------------------------
(* Python values *)

None == <<-1>>

\* Python truthiness of an Optional[str]: None and "" are falsy.
Falsy(v) == v = None \/ v = << >>

\* a < b for Python strings
RECURSIVE StrLess(_, _)
StrLess(a, b) ==
    IF a = << >> THEN b # << >>
    ELSE IF b = << >> THEN FALSE
    ELSE IF Head(a) = Head(b) THEN StrLess(Tail(a), Tail(b))
    ELSE Head(a) < Head(b)

\* datetime.utcnow().isoformat(): fixed-width fields, and the fraction of a
\* second is left out when it is zero.
IsoFormat(t) ==
    LET sec == t \div TicksPerSecond
        us  == t % TicksPerSecond
    IN  IF us = 0 THEN <<sec>> ELSE <<sec, us>>

UtcNowIso == IsoFormat(clock)

RECURSIVE Pow(_, _)
Pow(b, e) == IF e = 0 THEN 1 ELSE b * Pow(b, e - 1)

\* str(ObjectId): OidLen digits, most significant first
OidRendering ==
    [oid \in 0..(Pow(HexBase, OidLen) - 1) |->
        [i \in 1..OidLen |-> (oid \div Pow(HexBase, OidLen - i)) % HexBase]]

OidStr(oid) == OidRendering[oid]

\* ObjectId(s) raises unless s is OidLen digits, of either case
WellFormedOid(s) ==
    /\ s # None
    /\ Len(s) = OidLen
    /\ \A i \in 1..Len(s) : s[i] \in 0..HexBase

DigitValue(c) == IF c = HexBase THEN HexBase - 1 ELSE c

RECURSIVE OidValue(_)
OidValue(s) ==
    IF s = << >> THEN 0
    ELSE DigitValue(s[Len(s)]) + HexBase * OidValue(SubSeq(s, 1, Len(s) - 1))

ParseOid(s) == OidValue(s)

---------------------------------------------------------------------------
(* The collections *)

\* teachers_collection, keyed by username; the router only reads it.
teachers_collection == { <<7>> }

Doc(oid, message, start_date, expiration_date, created_at) ==
    [_id |-> oid, message |-> message, start_date |-> start_date,
     expiration_date |-> expiration_date, created_at |-> created_at]

StoreIds(s) == { s[i]._id : i \in 1..Len(s) }

\* find_one({"_id": oid}): the document, or None
FindOne(s, oid) ==
    IF oid \in StoreIds(s)
    THEN LET i == CHOOSE j \in 1..Len(s) : s[j]._id = oid IN <<s[i]>>
    ELSE << >>

\* SetFields replacing the document's three fields by the payload's
SetFieldsReplace(d, update) ==
    [d EXCEPT !.message = update.message, !.start_date = update.start_date,
              !.expiration_date = update.expiration_date]

\* update_one({"_id": oid}, {"$set": update}): the fields of `update` that
\* are not None replace those of the matching document; no upsert.
SetFields(d, update) ==
    [d EXCEPT
        !.message = IF update.message # None THEN update.message ELSE @,
        !.start_date = IF update.start_date # None THEN update.start_date ELSE @,
        !.expiration_date =
            IF update.expiration_date # None THEN update.expiration_date ELSE @]

UpdateOne(s, oid, update) ==
    [i \in 1..Len(s) |-> IF s[i]._id = oid THEN SetFields(s[i], update) ELSE s[i]]

\* MatchedCount of a filter that matches every document
MatchedCountAny(s, oid) == Len(s)

MatchedCount(s, oid) == Cardinality({ i \in 1..Len(s) : s[i]._id = oid })

\* delete_one({"_id": oid})
RECURSIVE DeleteOne(_, _)
DeleteOne(s, oid) ==
    IF s = << >> THEN << >>
    ELSE IF Head(s)._id = oid THEN Tail(s)
    ELSE <<Head(s)>> \o DeleteOne(Tail(s), oid)

DeletedCount(s, oid) == IF oid \in StoreIds(s) THEN 1 ELSE 0

\* an id generator that numbers a document by the size of the collection
NewObjectIdByCount == Len(store)

\* insert_one(doc): the collection gives the document a fresh ObjectId.
NewObjectId == nextOid

InsertOne(s, doc) == Append(s, doc)

---------------------------------------------------------------------------
(* _to_output and the two listings *)

ToOutput(doc) ==
    [id |-> OidStr(doc._id), message |-> doc.message,
     start_date |-> doc.start_date, expiration_date |-> doc.expiration_date,
     created_at |-> doc.created_at]

Outputs(s) == [i \in 1..Len(s) |-> ToOutput(s[i])]

\* The order of sort("created_at", -1): a missing created_at is below every
\* string.
MongoLess(x, y) ==
    IF x = None THEN y # None
    ELSE IF y = None THEN FALSE
    ELSE StrLess(x, y)

MongoSortedDesc(s) ==
    \A i \in 1..Len(s) : \A j \in 1..Len(s) :
        i < j => ~MongoLess(s[i].created_at, s[j].created_at)

Perms(n) == { f \in [1..n -> 1..n] : \A i \in 1..n : \A j \in 1..n : f[i] = f[j] => i = j }

\* find().sort("created_at", -1): every document, in some order the sort
\* allows (the order of documents with equal keys is not fixed).
FindSorted(s) ==
    { r \in { [i \in 1..Len(s) |-> s[f[i]]] : f \in Perms(Len(s)) } : MongoSortedDesc(r) }

\* IsActive with the expiry test `exp < now`
IsActiveInclusiveEnd(a, now) ==
    LET start == a.start_date
        exp   == a.expiration_date
    IN  IF Falsy(exp) THEN FALSE
        ELSE IF ~Falsy(start) /\ StrLess(now, start) THEN FALSE
        ELSE IF StrLess(exp, now) THEN FALSE
        ELSE TRUE

\* The three `continue` tests of list_active_announcements
IsActive(a, now) ==
    LET start == a.start_date
        exp   == a.expiration_date
    IN  IF Falsy(exp) THEN FALSE
        ELSE IF ~Falsy(start) /\ StrLess(now, start) THEN FALSE
        ELSE IF ~StrLess(now, exp) THEN FALSE
        ELSE TRUE

RECURSIVE ActiveOutputs(_, _)
ActiveOutputs(s, now) ==
    IF s = << >> THEN << >>
    ELSE (IF IsActive(Head(s), now) THEN <<ToOutput(Head(s))>> ELSE << >>)
         \o ActiveOutputs(Tail(s), now)

\* key=lambda x: x.get("created_at") or ""
SortKey(x) == IF Falsy(x.created_at) THEN << >> ELSE x.created_at

\* list.sort(key=..., reverse=True): stable, equal keys keep their order
RECURSIVE InsertDesc(_, _)
InsertDesc(s, x) ==
    IF s = << >> THEN <<x>>
    ELSE IF StrLess(SortKey(Head(s)), SortKey(x)) THEN <<x>> \o s
    ELSE <<Head(s)>> \o InsertDesc(Tail(s), x)

\* the listing left in the order of the collection
SortDescSkipped(s) == s

RECURSIVE SortDesc(_)
SortDesc(s) ==
    IF s = << >> THEN << >>
    ELSE InsertDesc(SortDesc(SubSeq(s, 1, Len(s) - 1)), s[Len(s)])

---------------------------------------------------------------------------
(* Requests and responses *)

Payload(message, start_date, expiration_date) ==
    [message |-> message, start_date |-> start_date,
     expiration_date |-> expiration_date]

Request(route, op, announcement_id, payload, teacher_username) ==
    [route |-> route, op |-> op, announcement_id |-> announcement_id,
     payload |-> payload, teacher_username |-> teacher_username]

NoReq == Request("none", "none", None, Payload(None, None, None), None)

\* HTTPException(status_code, detail), or a 200 answer carrying `body`
Response(status, detail, body) ==
    [status |-> status, detail |-> detail, body |-> body]

NoResp == Response(0, "", << >>)

\* What a handler leaves behind: its response and the collection after it.
Outcome(status, detail, body, s) ==
    [status |-> status, detail |-> detail, body |-> body, store |-> s]

---------------------------------------------------------------------------
(* The credential gate *)

\* EnsureTeacher without the lookup in teachers_collection
EnsureTeacherNoLookup(teacher_username) ==
    IF Falsy(teacher_username) THEN "Authentication required" ELSE ""

\* _ensure_teacher: "" when the teacher is found, else the detail of the 401
EnsureTeacher(teacher_username) ==
    IF Falsy(teacher_username) THEN "Authentication required"
    ELSE IF teacher_username \notin teachers_collection
    THEN "Invalid teacher credentials"
    ELSE ""

---------------------------------------------------------------------------
(* The handlers, as functions of the collection *)

\* create_announcement
CreateOutcome(s, payload, teacher_username, now, oid) ==
    IF EnsureTeacher(teacher_username) # ""
    THEN Outcome(401, EnsureTeacher(teacher_username), << >>, s)
    ELSE LET doc == Doc(oid, payload.message, payload.start_date,
                        payload.expiration_date, now)
         IN  Outcome(200, "", <<ToOutput(doc)>>, InsertOne(s, doc))

\* UpdateSet without the `is not None` tests
UpdateSetAll(payload) == { "message", "start_date", "expiration_date" }

\* the `update` dict of update_announcement: the fields that are not None
UpdateSet(payload) ==
    { f \in {"message", "start_date", "expiration_date"} : payload[f] # None }

\* UpdateWrite with the empty-update test before the id test
UpdateWriteEmptyFirst(s, announcement_id, payload, teacher_username) ==
    IF EnsureTeacher(teacher_username) # ""
    THEN Outcome(401, EnsureTeacher(teacher_username), << >>, s)
    ELSE IF UpdateSet(payload) = {}
    THEN Outcome(400, "No fields to update", << >>, s)
    ELSE IF ~WellFormedOid(announcement_id)
    THEN Outcome(400, "Invalid announcement id", << >>, s)
    ELSE IF MatchedCount(s, ParseOid(announcement_id)) = 0
    THEN Outcome(404, "Announcement not found", << >>, s)
    ELSE Outcome(200, "", << >>, UpdateOne(s, ParseOid(announcement_id), payload))

\* update_announcement up to and including update_one and the 404 test
UpdateWrite(s, announcement_id, payload, teacher_username) ==
    IF EnsureTeacher(teacher_username) # ""
    THEN Outcome(401, EnsureTeacher(teacher_username), << >>, s)
    ELSE IF ~WellFormedOid(announcement_id)
    THEN Outcome(400, "Invalid announcement id", << >>, s)
    ELSE IF UpdateSet(payload) = {}
    THEN Outcome(400, "No fields to update", << >>, s)
    ELSE IF MatchedCount(s, ParseOid(announcement_id)) = 0
    THEN Outcome(404, "Announcement not found", << >>, s)
    ELSE Outcome(200, "", << >>, UpdateOne(s, ParseOid(announcement_id), payload))

\* update_announcement from find_one on: _to_output(None) raises
\* AttributeError, which the framework answers with 500.
UpdateReread(s, announcement_id) ==
    LET ann == FindOne(s, ParseOid(announcement_id))
    IN  IF ann = << >>
        THEN Outcome(500, "Internal Server Error", << >>, s)
        ELSE Outcome(200, "", <<ToOutput(ann[1])>>, s)

\* update_announcement, run without interruption
UpdateOutcome(s, announcement_id, payload, teacher_username) ==
    LET w == UpdateWrite(s, announcement_id, payload, teacher_username)
    IN  IF w.status # 200 THEN w ELSE UpdateReread(w.store, announcement_id)

\* delete_announcement
DeleteOutcome(s, announcement_id, teacher_username) ==
    IF Falsy(teacher_username)
    THEN Outcome(401, "Authentication required", << >>, s)
    ELSE IF teacher_username \notin teachers_collection
    THEN Outcome(401, "Invalid teacher credentials", << >>, s)
    ELSE IF ~WellFormedOid(announcement_id)
    THEN Outcome(400, "Invalid announcement id", << >>, s)
    ELSE IF DeletedCount(s, ParseOid(announcement_id)) = 0
    THEN Outcome(404, "Announcement not found", << >>, s)
    ELSE Outcome(200, "Announcement deleted", << >>,
                 DeleteOne(s, ParseOid(announcement_id)))

---------------------------------------------------------------------------
(* The router: which endpoint each decorator registers.  A decorator       *)
(* registers the definition that follows it: @router.post("") stands above *)
(* class AnnouncementIn and @router.put("/{announcement_id}") above class  *)
(* AnnouncementUpdate, so the two classes are the endpoints of POST and    *)
(* PUT, and create_announcement and update_announcement are plain          *)
(* functions of the module.                                                *)

RouteTable ==
    [GET_announcements        |-> "list_announcements",
     GET_announcements_active |-> "list_active_announcements",
     POST_announcements       |-> "AnnouncementIn",
     PUT_announcements_id     |-> "AnnouncementUpdate",
     DELETE_announcements_id  |-> "delete_announcement"]

\* What the framework does with the model instance a class endpoint
\* returns under response_model=Dict[str, Any]: it is sent as a dict (200)
\* or rejected as no dict (500), depending on the installed pydantic.
ModelInstanceStatus == {200, 500}

---------------------------------------------------------------------------
(* Inputs *)

TeacherInputs == { None, << >>, <<7>>, <<8>> }

\* the requests the server works on at the same time
Workers == { "w1", "w2" }

NoPending == [w \in Workers |-> NoReq]

\* The payloads of create: the message and expiration_date are required,
\* start_date is optional.
CreatePayloads ==
    { Payload(<<1>>, st, IsoFormat(1)) : st \in {None, IsoFormat(1)} }

\* The payloads of update: each field is given or not (None).
UpdatePayloads ==
    { Payload(m, st, ex) : m \in {None, <<2>>}, st \in {None, IsoFormat(1)},
                           ex \in {None, IsoFormat(2)} }

\* s with its digits in upper case
UpperCase(s) == [i \in 1..Len(s) |-> IF s[i] = HexBase - 1 THEN HexBase ELSE s[i]]

\* ids a caller may send: the renderings of the ObjectIds the model can
\* issue (each is unknown to the collection before it is issued and after
\* its record is deleted), one of them in upper case, a string that is too
\* short and a string with a character that is no digit.
IdInputs ==
    { OidStr(n) : n \in 0..(MaxCreates - 1) }
        \cup { UpperCase(OidStr(HexBase - 1)) }
        \cup { <<0>>, [i \in 1..OidLen |-> HexBase + 1] }

---------------------------------------------------------------------------
(* Actions: one per handler call *)

Idle == req = NoReq

Answer(route, op, announcement_id, payload, teacher_username, out) ==
    /\ req' = Request(route, op, announcement_id, payload, teacher_username)
    /\ resp' = Response(out.status, out.detail, out.body)
    /\ store' = out.store

\* time passes between requests
Tick ==
    /\ Idle
    /\ clock < MaxClock
    /\ clock' = clock + 1
    /\ UNCHANGED <<store, nextOid, req, resp, pending, ledger, retired>>

\* the response has been sent
Return ==
    /\ ~Idle
    /\ req' = NoReq
    /\ resp' = NoResp
    /\ UNCHANGED <<store, clock, nextOid, pending, ledger, retired>>

list_announcements ==
    /\ Idle
    /\ \E r \in FindSorted(store) :
          Answer("GET", "list", None, Payload(None, None, None), None,
                 Outcome(200, "", Outputs(r), store))
    /\ UNCHANGED <<clock, nextOid, pending, ledger, retired>>

list_active_announcements ==
    /\ Idle
    /\ Answer("GET", "list_active", None, Payload(None, None, None), None,
              Outcome(200, "", SortDesc(ActiveOutputs(store, UtcNowIso)), store))
    /\ UNCHANGED <<clock, nextOid, pending, ledger, retired>>

create_announcement(route, payload, teacher_username) ==
    /\ Idle
    /\ nextOid < MaxCreates
    /\ LET out == CreateOutcome(store, payload, teacher_username, UtcNowIso,
                                NewObjectId)
       IN  /\ Answer(route, "create", None, payload, teacher_username, out)
           /\ IF out.status = 200
              THEN /\ nextOid' = nextOid + 1
                   /\ ledger' = ledger \cup
                        { [id |-> out.body[1].id,
                           created_at |-> out.body[1].created_at] }
              ELSE UNCHANGED <<nextOid, ledger>>
    /\ UNCHANGED <<clock, pending, retired>>

update_announcement(route, announcement_id, payload, teacher_username) ==
    /\ Idle
    /\ Answer(route, "update", announcement_id, payload, teacher_username,
              UpdateOutcome(store, announcement_id, payload, teacher_username))
    /\ UNCHANGED <<clock, nextOid, pending, ledger, retired>>

\* history: the ids rendered in s and no longer in t
Gone(s, t) == { OidStr(oid) : oid \in StoreIds(s) \ StoreIds(t) }

DeleteCall(route, announcement_id, teacher_username) ==
    /\ LET out == DeleteOutcome(store, announcement_id, teacher_username)
       IN  /\ Answer(route, "delete", announcement_id, Payload(None, None, None),
                     teacher_username, out)
           /\ IF out.status = 200
              THEN /\ ledger' = { l \in ledger : l.id \notin Gone(store, out.store) }
                   /\ retired' = retired \cup
                        { l.id : l \in { k \in ledger : k.id \in Gone(store, out.store) } }
              ELSE UNCHANGED <<ledger, retired>>
    /\ UNCHANGED <<clock, nextOid, pending>>

delete_announcement(route, announcement_id, teacher_username) ==
    /\ Idle
    /\ DeleteCall(route, announcement_id, teacher_username)

\* A class endpoint: the framework builds the model from the request and
\* returns it; no collection is touched and teacher_username is not read.
ModelEndpoint(route, announcement_id, payload, teacher_username) ==
    /\ Idle
    /\ \E status \in ModelInstanceStatus :
          Answer(route, "model", announcement_id, payload, teacher_username,
                 Outcome(status,
                         IF status = 200 THEN "" ELSE "Internal Server Error",
                         IF status = 200
                         THEN << [id |-> None, message |-> payload.message,
                                  start_date |-> payload.start_date,
                                  expiration_date |-> payload.expiration_date,
                                  created_at |-> None] >>
                         ELSE << >>,
                         store))
    /\ UNCHANGED <<clock, nextOid, pending, ledger, retired>>

\* POST /announcements
HttpPost(payload, teacher_username) ==
    IF RouteTable.POST_announcements = "create_announcement"
    THEN create_announcement("POST", payload, teacher_username)
    ELSE ModelEndpoint("POST", None, payload, teacher_username)

\* PUT /announcements/{announcement_id}
HttpPut(announcement_id, payload, teacher_username) ==
    IF RouteTable.PUT_announcements_id = "update_announcement"
    THEN update_announcement("PUT", announcement_id, payload, teacher_username)
    ELSE ModelEndpoint("PUT", announcement_id, payload, teacher_username)

---------------------------------------------------------------------------
(* The router answering one request at a time *)

Init ==
    /\ store = << >>
    /\ clock = 0
    /\ nextOid = 0
    /\ req = NoReq
    /\ resp = NoResp
    /\ pending = NoPending
    /\ ledger = {}
    /\ retired = {}

\* The calls a client or a caller of the module can make.
PostRequests ==
    /\ Idle
    /\ \E p \in CreatePayloads : HttpPost(p, <<7>>)

PutRequests ==
    /\ Idle
    /\ \E id \in IdInputs : HttpPut(id, Payload(<<2>>, None, None), <<7>>)

DeleteRequests ==
    /\ Idle
    /\ \E id \in IdInputs : \E t \in TeacherInputs :
          delete_announcement("DELETE", id, t)

CreateCalls ==
    /\ Idle
    /\ \E p \in CreatePayloads : \E t \in TeacherInputs :
          create_announcement("call", p, t)

UpdateCalls ==
    /\ Idle
    /\ \E id \in IdInputs : \E p \in UpdatePayloads : \E t \in TeacherInputs :
          update_announcement("call", id, p, t)

Next ==
    \/ Tick
    \/ Return
    \/ list_announcements
    \/ list_active_announcements
    \/ PostRequests
    \/ PutRequests
    \/ DeleteRequests
    \/ CreateCalls
    \/ UpdateCalls

Spec == Init /\ [][Next]_vars

---------------------------------------------------------------------------
(* The listings over a collection that exists already.  The collection is  *)
(* written by others too, so a document may lack expiration_date or        *)
(* created_at: list_active_announcements tests for both.                   *)

SeedFields ==
    [start_date : { None, << >>, IsoFormat(1) },
     expiration_date : { None, << >>, IsoFormat(0), IsoFormat(1), IsoFormat(2) },
     created_at : { None, << >>, IsoFormat(0), IsoFormat(1) }]

\* another writer of the collection inserts a document
ExternalInsert(f) ==
    /\ Idle
    /\ Len(store) < MaxSeed
    /\ store' = InsertOne(store, Doc(NewObjectId, <<1>>, f.start_date,
                                     f.expiration_date, f.created_at))
    /\ nextOid' = nextOid + 1
    /\ UNCHANGED <<clock, req, resp, pending, ledger, retired>>

NextRead ==
    \/ \E f \in SeedFields : ExternalInsert(f)
    \/ Tick
    \/ list_announcements
    \/ list_active_announcements
    \/ Return

SpecRead == Init /\ [][NextRead]_vars

---------------------------------------------------------------------------
(* Requests served at the same time.  Each call of the collection is one   *)
(* step; update_announcement makes two, update_one and find_one, and       *)
(* other requests may run between them.  req and resp hold the request     *)
(* answered last.                                                          *)

\* update_announcement up to update_one
StartUpdate(w, announcement_id, payload, teacher_username) ==
    /\ pending[w] = NoReq
    /\ LET out == UpdateWrite(store, announcement_id, payload, teacher_username)
       IN  /\ store' = out.store
           /\ IF out.status = 200
              THEN /\ pending' = [pending EXCEPT ![w] =
                          Request("call", "update", announcement_id, payload,
                                  teacher_username)]
                   /\ UNCHANGED <<req, resp>>
              ELSE /\ req' = Request("call", "update", announcement_id, payload,
                                     teacher_username)
                   /\ resp' = Response(out.status, out.detail, out.body)
                   /\ UNCHANGED pending
    /\ UNCHANGED <<clock, nextOid, ledger, retired>>

\* update_announcement from find_one to its return
FinishUpdate(w) ==
    /\ pending[w] # NoReq
    /\ LET out == UpdateReread(store, pending[w].announcement_id)
       IN  /\ req' = pending[w]
           /\ resp' = Response(out.status, out.detail, out.body)
    /\ pending' = [pending EXCEPT ![w] = NoReq]
    /\ UNCHANGED <<store, clock, nextOid, ledger, retired>>

InitConc ==
    /\ store = << Doc(0, <<1>>, None, IsoFormat(1), IsoFormat(0)) >>
    /\ clock = 0
    /\ nextOid = 1
    /\ req = NoReq
    /\ resp = NoResp
    /\ pending = NoPending
    /\ ledger = { [id |-> OidStr(0), created_at |-> IsoFormat(0)] }
    /\ retired = {}

NextConc ==
    \/ \E w \in Workers : \E id \in { OidStr(0), OidStr(1) } :
          \E p \in UpdatePayloads : \E t \in { None, <<7>> } :
             StartUpdate(w, id, p, t)
    \/ \E w \in Workers : FinishUpdate(w)
    \/ \E id \in { OidStr(0), OidStr(1) } : \E t \in { None, <<7>> } :
          DeleteCall("DELETE", id, t)

SpecConc == InitConc /\ [][NextConc]_vars

---------------------------------------------------------------------------
(* Properties.  The vocabulary they share: *)

\* the caller names no teacher of teachers_collection
NoValidTeacher(r) ==
    r.teacher_username \in { None, << >> }
        \/ r.teacher_username \notin teachers_collection

\* the id spells some ObjectId, in digits of either case
IsRenderedOid(id) ==
    /\ Len(id) = OidLen
    /\ \A i \in 1..OidLen : \E d \in 0..(HexBase - 1) : id[i] \in { d, UpperCase(<<d>>)[1] }

\* positions of the documents whose id the string spells
StoredUnder(s, id) ==
    { i \in 1..Len(s) :
        /\ Len(id) = OidLen
        /\ \A k \in 1..OidLen :
              id[k] \in { OidStr(s[i]._id)[k], UpperCase(OidStr(s[i]._id))[k] } }

Fields == { "message", "start_date", "expiration_date" }

Provided(r) == { f \in Fields : r.payload[f] # None }

\* a handler starts on r' in this step
Handles(ops) == req = NoReq /\ req' # NoReq /\ req'.op \in ops

---------------------------------------------------------------------------
\* C1: a create, update or delete whose teacher identity is absent, empty
\* or unknown is answered 401 and leaves the collection exactly as it was,
\* whatever its id and payload.
C1_UnauthorizedLeavesStore ==
    [][ (Handles({"create", "update", "delete"}) /\ NoValidTeacher(req'))
            => (resp'.status = 401 /\ store' = store) ]_vars

\* an unknown teacher asks for an update that would otherwise change a
\* stored record
C1_Witness ==
    /\ req.op = "update"
    /\ req.teacher_username = <<8>>
    /\ resp.status = 401
    /\ StoredUnder(store, req.announcement_id) # {}
    /\ Provided(req) # {}

---------------------------------------------------------------------------
\* d is inside the half-open window [start_date, expiration_date) at now
C2_InWindow(d, now) ==
    /\ d.expiration_date # None
    /\ d.start_date = None \/ d.start_date = now \/ StrLess(d.start_date, now)
    /\ StrLess(now, d.expiration_date)

\* C2: list_active returns exactly the stored announcements whose
\* expiration_date is present, whose start_date is absent or <= now, and
\* for which now < expiration_date, as strings; so start_date = now is
\* included, expiration_date = now is excluded, and a record without
\* expiration_date is excluded.
C2_ActiveIsWindow ==
    req.op = "list_active" =>
        /\ resp.status = 200
        /\ { resp.body[k].id : k \in 1..Len(resp.body) }
             = { OidStr(store[i]._id) :
                   i \in { j \in 1..Len(store) : C2_InWindow(store[j], UtcNowIso) } }
        /\ Len(resp.body)
             = Cardinality({ j \in 1..Len(store) : C2_InWindow(store[j], UtcNowIso) })

\* one listing with a record that starts now (listed) and a record that
\* expires now (not listed)
C2_Witness ==
    /\ req.op = "list_active"
    /\ \E i \in 1..Len(store) :
          /\ store[i].start_date = UtcNowIso
          /\ \E k \in 1..Len(resp.body) : resp.body[k].id = OidStr(store[i]._id)
    /\ \E i \in 1..Len(store) :
          /\ store[i].expiration_date = UtcNowIso
          /\ \A k \in 1..Len(resp.body) : resp.body[k].id # OidStr(store[i]._id)

---------------------------------------------------------------------------
\* C3: a successful update sets each provided field to the supplied value,
\* leaves the other fields, the id and created_at of that record and every
\* other record unchanged; an update that fails changes nothing.
C3_UpdateFrame ==
    [][ Handles({"update"}) =>
          IF resp'.status = 200
          THEN /\ Len(store') = Len(store)
               /\ \A i \in 1..Len(store) :
                     IF i \in StoredUnder(store, req'.announcement_id)
                     THEN /\ store'[i]._id = store[i]._id
                          /\ store'[i].created_at = store[i].created_at
                          /\ \A f \in Fields :
                                store'[i][f] = IF f \in Provided(req')
                                               THEN req'.payload[f]
                                               ELSE store[i][f]
                     ELSE store'[i] = store[i]
          ELSE store' = store ]_vars

\* an update of the message alone, on a record with a start_date, beside
\* another record
C3_Witness ==
    /\ req.op = "update"
    /\ resp.status = 200
    /\ Provided(req) = {"message"}
    /\ Len(store) = 2
    /\ \E i \in StoredUnder(store, req.announcement_id) :
          /\ store[i].message = req.payload.message
          /\ store[i].start_date # None

---------------------------------------------------------------------------
\* C4: an authorized update with a well-formed id and no field is answered
\* 400 "No fields to update" and leaves the collection unchanged, whether
\* or not the id is stored.
C4_EmptyUpdateRejected ==
    [][ ( /\ Handles({"update"})
          /\ ~NoValidTeacher(req')
          /\ IsRenderedOid(req'.announcement_id)
          /\ Provided(req') = {} )
            => ( /\ resp'.status = 400
                 /\ resp'.detail = "No fields to update"
                 /\ store' = store ) ]_vars

\* the empty update names a stored record
C4_Witness ==
    /\ req.op = "update"
    /\ ~NoValidTeacher(req)
    /\ Provided(req) = {}
    /\ StoredUnder(store, req.announcement_id) # {}
    /\ resp.detail = "No fields to update"

---------------------------------------------------------------------------
\* C5: an authorized update with at least one field, or delete, on a
\* well-formed id that is not stored is answered 404 and leaves the
\* collection unchanged.
C5_MissingIdIsNotFound ==
    [][ ( /\ Handles({"update", "delete"})
          /\ ~NoValidTeacher(req')
          /\ IsRenderedOid(req'.announcement_id)
          /\ req'.op = "update" => Provided(req') # {}
          /\ StoredUnder(store, req'.announcement_id) = {} )
            => ( /\ resp'.status = 404
                 /\ store' = store ) ]_vars

\* an update of an id that was deleted, while another record is stored
C5_Witness ==
    /\ req.op = "update"
    /\ resp.status = 404
    /\ req.announcement_id \in retired
    /\ Len(store) > 0

---------------------------------------------------------------------------
\* C6: no two stored announcements share an id; the id create returned
\* stays the id of that record, in the collection and in every listing,
\* until the record is deleted; and the id of a deleted record is not
\* given to a record created later.
C6_IdsUniqueAndStable ==
    LET ids == [i \in 1..Len(store) |-> OidStr(store[i]._id)]
    IN  /\ \A i \in 1..Len(store) : \A j \in 1..Len(store) :
              i # j => ids[i] # ids[j]
        /\ \A l \in ledger :
              /\ \E i \in 1..Len(store) :
                    ids[i] = l.id /\ store[i].created_at = l.created_at
              /\ (req.op = "list" /\ resp.status = 200) =>
                    \E k \in 1..Len(resp.body) :
                        /\ resp.body[k].id = l.id
                        /\ resp.body[k].created_at = l.created_at
        /\ (req.op = "update" /\ resp.status = 200) =>
              \E l \in ledger :
                  /\ resp.body[1].id = l.id
                  /\ resp.body[1].created_at = l.created_at
        /\ \A i \in 1..Len(store) : ids[i] \notin retired

\* a listing after a record was deleted and another created
C6_Witness ==
    /\ req.op = "list"
    /\ retired # {}
    /\ ledger # {}
    /\ Len(resp.body) = 1

---------------------------------------------------------------------------
\* created_at as the listings order it, a missing one as the empty string
C7_Key(o) == IF o.created_at = None THEN << >> ELSE o.created_at

C7_NonIncreasing(body) ==
    \A i \in 1..Len(body) : \A j \in 1..Len(body) :
        i < j => ~StrLess(C7_Key(body[i]), C7_Key(body[j]))

\* C7 (as amended): list returns every stored announcement and list_active
\* its filtered announcements in non-increasing order of created_at, a
\* missing created_at counting as the empty string; in list_active a
\* record without created_at comes after every record whose created_at is
\* a non-empty string.
C7_ListingsOrdered ==
    /\ req.op = "list" =>
          /\ Len(resp.body) = Len(store)
          /\ { resp.body[k].id : k \in 1..Len(resp.body) }
               = { OidStr(store[i]._id) : i \in 1..Len(store) }
          /\ C7_NonIncreasing(resp.body)
    /\ req.op = "list_active" =>
          /\ C7_NonIncreasing(resp.body)
          /\ \A i \in 1..Len(resp.body) : \A j \in 1..Len(resp.body) :
                (i < j /\ resp.body[i].created_at = None)
                    => resp.body[j].created_at \in { None, << >> }

\* C7 as stated: in list_active a record without created_at comes after
\* every record that has a created_at.
C7_MissingAfterEveryPresent ==
    /\ req.op = "list" =>
          /\ Len(resp.body) = Len(store)
          /\ C7_NonIncreasing(resp.body)
    /\ req.op = "list_active" =>
          /\ C7_NonIncreasing(resp.body)
          /\ \A i \in 1..Len(resp.body) : \A j \in 1..Len(resp.body) :
                (i < j /\ resp.body[i].created_at = None)
                    => resp.body[j].created_at = None

\* an active listing that had to reorder: the older record is stored first
\* and listed last, after the newer one
C7_Witness ==
    /\ req.op = "list_active"
    /\ Len(resp.body) = 2
    /\ Len(store) = 2
    /\ resp.body[1].id = OidStr(store[2]._id)
    /\ resp.body[2].created_at = None
    /\ resp.body[1].created_at \notin { None, << >> }

---------------------------------------------------------------------------
\* C8: POST /announcements is handled by create and PUT
\* /announcements/{id} by update: with a valid teacher and payload, POST
\* inserts the announcement and returns it with id and created_at, and PUT
\* on a stored id applies the fields and returns the updated record.
C8_PostCreatesPutUpdates ==
    /\ (req.route = "POST" /\ ~NoValidTeacher(req)) =>
          /\ resp.status = 200
          /\ Len(resp.body) = 1
          /\ resp.body[1].id # None
          /\ resp.body[1].created_at # None
          /\ StoredUnder(store, resp.body[1].id) # {}
    /\ ( /\ req.route = "PUT"
         /\ ~NoValidTeacher(req)
         /\ Provided(req) # {}
         /\ StoredUnder(store, req.announcement_id) # {} ) =>
          /\ resp.status = 200
          /\ Len(resp.body) = 1
          /\ \E i \in StoredUnder(store, req.announcement_id) :
                resp.body[1].id = OidStr(store[i]._id)
          /\ \A i \in StoredUnder(store, req.announcement_id) :
                \A f \in Provided(req) : store[i][f] = req.payload[f]

---------------------------------------------------------------------------
\* the status the first failing test gives request r on collection s
C9_Expected(r, s) ==
    IF NoValidTeacher(r) THEN 401
    ELSE IF ~IsRenderedOid(r.announcement_id) THEN 400
    ELSE IF r.op = "update" /\ Provided(r) = {} THEN 400
    ELSE IF StoredUnder(s, r.announcement_id) = {} THEN 404
    ELSE 200

\* C9: update and delete test in a fixed order, and the first test that
\* fails decides the answer: the teacher (401), then the id (400 "Invalid
\* announcement id"), then, for update, the empty update (400 "No fields
\* to update"), then the existence of the record (404); nothing is written
\* unless every test has passed.
C9_ChecksInOrder ==
    [][ Handles({"update", "delete"}) =>
          /\ resp'.status = C9_Expected(req', store)
          /\ (resp'.status = 400) =>
                (resp'.detail = IF IsRenderedOid(req'.announcement_id)
                                THEN "No fields to update"
                                ELSE "Invalid announcement id")
          /\ resp'.status # 200 => store' = store ]_vars

\* an authorized update with a malformed id and no field: the id decides
C9_Witness ==
    /\ req.op = "update"
    /\ ~NoValidTeacher(req)
    /\ ~IsRenderedOid(req.announcement_id)
    /\ Provided(req) = {}
    /\ resp.detail = "Invalid announcement id"

---------------------------------------------------------------------------
\* C10: however updates and deletes of one id interleave, an update whose
\* write matched a record is answered 200 with the record, each field it
\* provided having the value it supplied.
C10_MatchedUpdateReturnsItsWrite ==
    (req.op = "update" /\ resp.status \notin {0, 400, 401, 404}) =>
        /\ resp.status = 200
        /\ Len(resp.body) = 1
        /\ \A f \in Provided(req) : resp.body[1][f] = req.payload[f]

====
